---- MODULE Spec2Model ----
(***************************************************************************)
(* Model of lib/responder.py: the Responder stages (address validation,    *)
(* carrier-route retrieval, report generation) and ResponderPipeline.      *)
(*                                                                         *)
(* Python objects are modelled with identity: `objs` is the heap of        *)
(* Address objects and `lists` the heap of list objects (sequences of      *)
(* Address ids), so that in-place mutation of the caller's list and of an  *)
(* Address is visible wherever the object is referenced.                   *)
(*                                                                         *)
(* adds, expected, batch0, born, calls, rets and events are history       *)
(* variables: the add calls made while the pipeline is built, the order   *)
(* they ask for (fixed when the run starts), the uploaded batch, for each *)
(* Address object the batch index it was created for, the stage calls     *)
(* with their arguments, the values the stages returned, and the lookups  *)
(* and writes issued to the external services (each lookup with what its  *)
(* response offers).                                                      *)
(***************************************************************************)
EXTENDS Naturals, Sequences, FiniteSets, TLC

VARIABLES responders, adds, expected, objs, born, lists, batch0, pc, si, idx, arg,
          response, result, exc, frame, calls, rets, events

vars == <<responders, adds, expected, objs, born, lists, batch0, pc, si, idx, arg,
          response, result, exc, frame, calls, rets, events>>

(* ------------------------------ bounds -------------------------------- *)
MaxStages == 3
MaxBatch == 2

(* ------------------------------ values -------------------------------- *)
\* Python's None
NoneVal == "<None>"

\* a local variable that was never assigned (list ids start at 1)
Unbound == 0

\* the list object the caller passes to ResponderPipeline.respond
addresses == 1

\* stage kinds: the three stages of the module and a Responder subclass
\* that returns a newly constructed list
BuiltinKinds == {"Validation", "CarrierRoute", "Report"}

StageKinds == BuiltinKinds \cup {"NewList"}

\* Python truthiness of a str-or-None value
Truthy(v) == v # "" /\ v # NoneVal

(* ------------------------------ Address ------------------------------- *)
mkAddress(sn, name, apt, city, state, zip, route) ==
    [street_number |-> sn, street_name |-> name, apt_number |-> apt,
     city |-> city, state |-> state, zip |-> zip, carrier_route |-> route]

\* AddressBuilder()...build(): a fresh Address, carrier_route not populated
build(sn, name, apt, city, state, zip) ==
    mkAddress(sn, name, apt, city, state, zip, NoneVal)

Core(a) == <<a.street_number, a.street_name, a.apt_number, a.city, a.state, a.zip>>

\* Address.__eq__: equality over the core fields only
AddressEq(a, b) == Core(a) = Core(b)

\* the addresses an uploaded batch is made of (strings are token sequences
\* where the code concatenates them)
AddressSt == build("123", <<"Main", " ", "St">>, "", "Springfield", "IL", "62704")

AddressAve == build("123", <<"Main", " ", "Ave">>, "4", "Springfield", "IL", "62704")

\* an uploaded batch of n addresses
UploadedBatch(n) == [i \in 1..n |-> IF i % 2 = 1 THEN AddressSt ELSE AddressAve]

(* ----------------------- address-candidate lookup --------------------- *)
Attributes(stType, subAddr) ==
    [AddNum |-> "123", StName |-> <<"Main">>, StType |-> <<stType>>,
     SubAddr |-> subAddr, City |-> "Springfield", RegionAbbr |-> "IL",
     Postal |-> "62704"]

\* a candidate is a JSON object: `keys` is the set of keys it has
CandSt == [keys |-> {"attributes"}, attributes |-> Attributes("St", "")]

CandAve == [keys |-> {"attributes"}, attributes |-> Attributes("Ave", "4")]

\* a non-empty JSON object without "attributes", and the empty JSON object
CandNoAttributes == [keys |-> {"score"}, attributes |-> Attributes("St", "")]

CandEmpty == [keys |-> {}, attributes |-> Attributes("St", "")]

ValidationJson(keys, candidates) ==
    [ok |-> TRUE, keys |-> keys, candidates |-> candidates]

\* ok = FALSE: the call or the JSON decoding raised
ValidationResponses ==
    { [ok |-> FALSE, keys |-> {}, candidates |-> <<>>],
      ValidationJson({}, <<>>),
      ValidationJson({"candidates"}, <<>>),
      ValidationJson({"candidates"}, <<CandSt>>),
      ValidationJson({"candidates"}, <<CandAve, CandSt>>),
      ValidationJson({"candidates"}, <<CandNoAttributes>>),
      ValidationJson({"candidates"}, <<CandEmpty, CandAve>>) }

(* -------------------------- carrier-route lookup ---------------------- *)
Route(r) == [keys |-> {"carrierRoute"}, carrierRoute |-> r]

EntryNoRoute == [keys |-> {}, carrierRoute |-> ""]

CarrierJson(keys, addressList) ==
    [ok |-> TRUE, keys |-> keys, addressList |-> addressList]

CarrierResponses ==
    { [ok |-> FALSE, keys |-> {}, addressList |-> <<>>],
      CarrierJson({}, <<>>),
      CarrierJson({"addressList"}, <<>>),
      CarrierJson({"addressList"}, <<Route("")>>),
      CarrierJson({"addressList"}, <<Route(""), Route("C001")>>),
      CarrierJson({"addressList"}, <<Route("C001"), Route("C002")>>),
      CarrierJson({"addressList"}, <<Route("C001"), EntryNoRoute>>),
      CarrierJson({"addressList"}, <<Route(""), EntryNoRoute>>) }

(* --------------------- AddressValidationResponder --------------------- *)
\* a store that inserts the new entry instead of replacing the old one
setitem_insert(list, i, id) ==
    [k \in 1..Len(list) + 1 |->
        IF k < i THEN list[k] ELSE IF k = i THEN id ELSE list[k - 1]]

\* a store that is lost
setitem_lost(list, i, id) == list

\* `addresses[idx] = new_address` on a list of Address ids
setitem(list, i, id) == [list EXCEPT ![i] = id]

\* the "SingleLine" f-string of AddressValidationResponder.respond
SingleLine(address) ==
    IF Truthy(address.apt_number)
    THEN <<address.street_number, address.street_name, "apt #",
           address.apt_number, address.city, address.state, address.zip>>
    ELSE <<address.street_number, address.street_name,
           address.city, address.state, address.zip>>

ValidationParams(address) ==
    [SingleLine |-> SingleLine(address), f |-> "json", outFields |-> "*",
     countryCode |-> "US"]

\* the "" of `candidates[0] if len(candidates) else ""`: like an
\* empty JSON object it is falsy, and validate only tests its truth value
EmptyStr == [keys |-> {}, attributes |-> Attributes("St", "")]

\* taking the last candidate of the response instead of the first
BestCandidate_last(candidates) ==
    IF Len(candidates) # 0 THEN candidates[Len(candidates)] ELSE EmptyStr

\* `candidates[0] if len(candidates) else ""`
BestCandidate(candidates) ==
    IF Len(candidates) # 0 THEN candidates[1] ELSE EmptyStr

\* a validate that compares every field, carrier_route included
validate_all_fields(address, address_json) ==
    IF address_json.keys = {}
    THEN [raised |-> FALSE, verdict |-> TRUE, address |-> address]
    ELSE IF "attributes" \notin address_json.keys
    THEN [raised |-> TRUE, verdict |-> FALSE, address |-> address]
    ELSE LET address_attributes == address_json.attributes
             received_address ==
                 build(address_attributes.AddNum,
                       address_attributes.StName \o <<" ">> \o address_attributes.StType,
                       address_attributes.SubAddr,
                       address_attributes.City,
                       address_attributes.RegionAbbr,
                       address_attributes.Postal)
         IN [raised |-> FALSE,
             verdict |-> (address = received_address),
             address |-> received_address]

\* AddressValidationResponder.validate: <<verdict, address>>, or a KeyError
validate(address, address_json) ==
    IF address_json.keys = {}
    THEN [raised |-> FALSE, verdict |-> TRUE, address |-> address]
    ELSE IF "attributes" \notin address_json.keys
    THEN [raised |-> TRUE, verdict |-> FALSE, address |-> address]
    ELSE LET address_attributes == address_json.attributes
             received_address ==
                 build(address_attributes.AddNum,
                       address_attributes.StName \o <<" ">> \o address_attributes.StType,
                       address_attributes.SubAddr,
                       address_attributes.City,
                       address_attributes.RegionAbbr,
                       address_attributes.Postal)
         IN [raised |-> FALSE,
             verdict |-> AddressEq(address, received_address),
             address |-> received_address]

\* what one iteration of the loop of AddressValidationResponder.respond
\* does with the response of its lookup
ValidationOutcome(address, resp) ==
    IF ~resp.ok
    THEN [raised |-> TRUE, exc |-> "TransportError", verdict |-> FALSE, address |-> address]
    ELSE IF "candidates" \notin resp.keys
    THEN [raised |-> TRUE, exc |-> "KeyError", verdict |-> FALSE, address |-> address]
    ELSE LET v == validate(address, BestCandidate(resp.candidates))
         IN [raised |-> v.raised, exc |-> "KeyError", verdict |-> v.verdict,
             address |-> v.address]

(* ------------------- CarrierRouteRetreiverResponder ------------------- *)
CarrierData(address) ==
    [address1 |-> <<address.street_number, " ", address.street_name>>,
     address2 |-> address.apt_number,
     city |-> address.city,
     state |-> address.state,
     urbanCode |-> "",
     zip |-> address.zip]

\* a scan without the `break`: the last non-empty route wins
RECURSIVE ScanRoutes_nobreak(_, _)
ScanRoutes_nobreak(address_list, i) ==
    IF i > Len(address_list)
    THEN [raised |-> FALSE, found |-> FALSE, route |-> NoneVal]
    ELSE IF "carrierRoute" \notin address_list[i].keys
    THEN [raised |-> TRUE, found |-> FALSE, route |-> NoneVal]
    ELSE LET rest == ScanRoutes_nobreak(address_list, i + 1)
         IN IF rest.raised \/ rest.found \/ ~Truthy(address_list[i].carrierRoute)
            THEN rest
            ELSE [raised |-> FALSE, found |-> TRUE, route |-> address_list[i].carrierRoute]

\* a scan that reads a missing "carrierRoute" as empty
RECURSIVE ScanRoutes_get(_, _)
ScanRoutes_get(address_list, i) ==
    IF i > Len(address_list)
    THEN [raised |-> FALSE, found |-> FALSE, route |-> NoneVal]
    ELSE IF "carrierRoute" \in address_list[i].keys /\ Truthy(address_list[i].carrierRoute)
    THEN [raised |-> FALSE, found |-> TRUE, route |-> address_list[i].carrierRoute]
    ELSE ScanRoutes_get(address_list, i + 1)

\* the scan `for address_json in address_list` from entry i on
RECURSIVE ScanRoutes(_, _)
ScanRoutes(address_list, i) ==
    IF i > Len(address_list)
    THEN [raised |-> FALSE, found |-> FALSE, route |-> NoneVal]
    ELSE IF "carrierRoute" \notin address_list[i].keys
    THEN [raised |-> TRUE, found |-> FALSE, route |-> NoneVal]
    ELSE IF Truthy(address_list[i].carrierRoute)
    THEN [raised |-> FALSE, found |-> TRUE, route |-> address_list[i].carrierRoute]
    ELSE ScanRoutes(address_list, i + 1)

CarrierOutcome(resp) ==
    IF ~resp.ok
    THEN [raised |-> TRUE, exc |-> "TransportError", found |-> FALSE, route |-> NoneVal]
    ELSE IF "addressList" \notin resp.keys
    THEN [raised |-> TRUE, exc |-> "KeyError", found |-> FALSE, route |-> NoneVal]
    ELSE LET s == ScanRoutes(resp.addressList, 1)
         IN [raised |-> s.raised, exc |-> "KeyError", found |-> s.found, route |-> s.route]

(* ----------------------- ReportGeneratorResponder --------------------- *)
\* json.dumps(addresses, cls=AddressEncoder): the entries in list order,
\* each with its fields as they are at the time of the call
Serialize(heap, list) == [i \in 1..Len(list) |-> heap[list[i]]]

SessionId == "sid"

FilePath(filename) == <<"web/files", <<SessionId, filename>>>>

(* --------------------------- ResponderPipeline ------------------------ *)
\* an add_first that adds at the back
appendleft_back(d, responder) == Append(d, responder)

\* deque.appendleft
appendleft(d, responder) == <<responder>> \o d

\* deque.append
append(d, responder) == Append(d, responder)

\* the locals of a stage's respond while its loop runs; none outside it
NoFrame == [kind |-> "none"]

(* ------------------- what a response offers (history) ----------------- *)
NoOffer == [some |-> FALSE, value |-> <<>>]

\* the core fields the first candidate of a response proposes, if it has one
\* that carries attributes
OfferedAddress(resp) ==
    IF resp.ok /\ "candidates" \in resp.keys /\ Len(resp.candidates) >= 1
       /\ "attributes" \in resp.candidates[1].keys
    THEN LET a == resp.candidates[1].attributes
         IN [some |-> TRUE,
             value |-> <<a.AddNum, a.StName \o <<" ">> \o a.StType, a.SubAddr,
                         a.City, a.RegionAbbr, a.Postal>>]
    ELSE NoOffer

\* the lookup cannot be used: the call failed, "candidates" is missing, or
\* the first candidate is a non-empty object without "attributes"
ValidationFails(resp) ==
    \/ ~resp.ok
    \/ "candidates" \notin resp.keys
    \/ /\ Len(resp.candidates) >= 1
       /\ resp.candidates[1].keys # {}
       /\ "attributes" \notin resp.candidates[1].keys

\* the positions of a response's entries that carry a non-empty route
RoutePositions(resp) ==
    {i \in 1..Len(resp.addressList) :
        /\ "carrierRoute" \in resp.addressList[i].keys
        /\ resp.addressList[i].carrierRoute # ""}

Min(S) == CHOOSE x \in S : \A y \in S : x <= y

\* the route of the first entry, in response order, that has a non-empty one
OfferedRoute(resp) ==
    IF resp.ok /\ "addressList" \in resp.keys /\ RoutePositions(resp) # {}
    THEN [some |-> TRUE,
          value |-> <<resp.addressList[Min(RoutePositions(resp))].carrierRoute>>]
    ELSE NoOffer

\* the lookup cannot be used: the call failed, "addressList" is missing, or
\* an entry without "carrierRoute" comes before every entry with a route
CarrierFails(resp) ==
    \/ ~resp.ok
    \/ "addressList" \notin resp.keys
    \/ \E i \in 1..Len(resp.addressList) :
          /\ "carrierRoute" \notin resp.addressList[i].keys
          /\ \A j \in RoutePositions(resp) : i < j

\* the execution order a sequence of add_first / add_last calls asks for:
\* add_first puts the stage before, add_last after, all stages present
RECURSIVE OrderOf(_)
OrderOf(as) ==
    IF as = <<>> THEN <<>>
    ELSE LET n == Len(as)
             rest == OrderOf(SubSeq(as, 1, n - 1))
         IN IF as[n].op = "add_first"
            THEN [i \in 1..Len(rest) + 1 |-> IF i = 1 THEN as[n].responder ELSE rest[i - 1]]
            ELSE [i \in 1..Len(rest) + 1 |-> IF i <= Len(rest) THEN rest[i] ELSE as[n].responder]

Init ==
    /\ \E n \in 0..MaxBatch : batch0 = UploadedBatch(n)
    /\ objs = batch0
    /\ born = [i \in 1..Len(batch0) |-> i]
    /\ lists = <<[i \in 1..Len(batch0) |-> i]>>
    /\ responders = <<>>
    /\ adds = <<>>
    /\ expected = <<>>
    /\ pc = "idle"
    /\ si = 0
    /\ idx = 0
    /\ arg = Unbound
    /\ response = Unbound
    /\ result = Unbound
    /\ exc = "none"
    /\ frame = NoFrame
    /\ calls = <<>>
    /\ rets = <<>>
    /\ events = <<>>

runVars == <<objs, born, lists, pc, si, idx, arg, response, result, exc, frame,
             calls, rets, events>>

\* ResponderPipeline.add_first
AddFirst(responder) ==
    /\ pc = "idle"
    /\ Len(responders) < MaxStages
    /\ responders' = appendleft(responders, responder)
    /\ adds' = Append(adds, [op |-> "add_first", responder |-> responder])
    /\ UNCHANGED expected
    /\ UNCHANGED <<batch0, runVars>>

\* ResponderPipeline.add_last
AddLast(responder) ==
    /\ pc = "idle"
    /\ Len(responders) < MaxStages
    /\ responders' = append(responders, responder)
    /\ adds' = Append(adds, [op |-> "add_last", responder |-> responder])
    /\ UNCHANGED expected
    /\ UNCHANGED <<batch0, runVars>>

\* ResponderPipeline.respond(addresses) is called
PipelineRespond ==
    /\ pc = "idle"
    /\ pc' = "loop"
    /\ si' = 0
    /\ adds' = <<>>
    /\ expected' = OrderOf(adds)
    /\ UNCHANGED <<responders, batch0, objs, born, lists, idx, arg, response,
                   result, exc, frame, calls, rets, events>>

\* the argument of `responder.respond(addresses)`: the list respond was
\* called with, whatever `response` holds
StageArg(resp) == addresses

\* `response = responder.respond(addresses)`: the call of the next stage
PipelineCall ==
    /\ pc = "loop"
    /\ si < Len(responders)
    /\ si' = si + 1
    /\ arg' = StageArg(response)
    /\ idx' = 1
    /\ calls' = Append(calls, [pos |-> si + 1, kind |-> responders[si + 1],
                               arg |-> StageArg(response)])
    /\ pc' = "stage"
    /\ UNCHANGED <<responders, adds, expected, batch0, objs, born, lists, response, result,
                   exc, frame, rets, events>>

\* a stage returns `ret`: the assignment to `response`
StageReturns(ret) ==
    /\ response' = ret
    /\ frame' = NoFrame
    /\ rets' = Append(rets, ret)
    /\ pc' = "loop"

Raise(e) ==
    /\ pc' = "raised"
    /\ exc' = e

\* `return response`
PipelineReturn ==
    /\ pc = "loop"
    /\ si = Len(responders)
    /\ IF response = Unbound
       THEN Raise("UnboundLocalError") /\ UNCHANGED result
       ELSE pc' = "returned" /\ result' = response /\ UNCHANGED exc
    /\ UNCHANGED <<responders, adds, expected, batch0, objs, born, lists, si, idx, arg,
                   response, frame, calls, rets, events>>

InStage(kind) == pc = "stage" /\ responders[si] = kind

\* one iteration of the loop of AddressValidationResponder.respond
ValidationStep(resp) ==
    /\ InStage("Validation")
    /\ idx <= Len(lists[arg])
    /\ LET id == lists[arg][idx]
           address == objs[id]
           out == ValidationOutcome(address, resp)
       IN /\ frame' = [kind |-> "Validation", idx |-> idx, list |-> arg, id |-> id,
                      address |-> address, resp |-> resp]
          /\ events' = Append(events, [op |-> "V", idx |-> idx,
                                       req |-> ValidationParams(address),
                                       fails |-> ValidationFails(resp),
                                       offer |-> NoOffer])
          /\ IF out.raised
             THEN Raise(out.exc) /\ UNCHANGED <<objs, born, lists, idx>>
             ELSE /\ IF ~out.verdict
                     THEN /\ objs' = Append(objs, out.address)
                          /\ born' = Append(born, idx)
                          /\ lists' = [lists EXCEPT
                                         ![arg] = setitem(lists[arg], idx, Len(objs) + 1)]
                     ELSE UNCHANGED <<objs, born, lists>>
                  /\ idx' = idx + 1
                  /\ UNCHANGED <<pc, exc>>
    /\ UNCHANGED <<responders, adds, expected, batch0, si, arg, response, result, calls, rets>>

\* `return addresses` of AddressValidationResponder.respond
ValidationReturn ==
    /\ InStage("Validation")
    /\ idx > Len(lists[arg])
    /\ StageReturns(arg)
    /\ UNCHANGED <<responders, adds, expected, batch0, objs, born, lists, si, idx, arg,
                   result, exc, calls, events>>

\* one iteration of the loop of CarrierRouteRetreiverResponder.respond
CarrierStep(resp) ==
    /\ InStage("CarrierRoute")
    /\ idx <= Len(lists[arg])
    /\ LET id == lists[arg][idx]
           address == objs[id]
           out == CarrierOutcome(resp)
       IN /\ frame' = [kind |-> "CarrierRoute", idx |-> idx, list |-> arg, id |-> id,
                      address |-> address, resp |-> resp]
          /\ events' = Append(events, [op |-> "C", idx |-> idx,
                                       req |-> CarrierData(address),
                                       fails |-> CarrierFails(resp),
                                       offer |-> OfferedRoute(resp)])
          /\ IF out.raised
             THEN Raise(out.exc) /\ UNCHANGED <<objs, idx>>
             ELSE /\ IF out.found
                     THEN objs' = [objs EXCEPT ![id].carrier_route = out.route]
                     ELSE UNCHANGED objs
                  /\ idx' = idx + 1
                  /\ UNCHANGED <<pc, exc>>
    /\ UNCHANGED <<responders, adds, expected, batch0, born, lists, si, arg, response,
                   result, calls, rets>>

\* `return addresses` of CarrierRouteRetreiverResponder.respond
CarrierReturn ==
    /\ InStage("CarrierRoute")
    /\ idx > Len(lists[arg])
    /\ StageReturns(arg)
    /\ UNCHANGED <<responders, adds, expected, batch0, objs, born, lists, si, idx, arg,
                   result, exc, calls, events>>

\* ReportGeneratorResponder.respond
ReportRespond ==
    /\ InStage("Report")
    /\ events' = Append(events, [op |-> "W", idx |-> 0,
                                 req |-> [path |-> FilePath("data.json"),
                                          data |-> Serialize(objs, lists[arg])],
                                 fails |-> FALSE,
                                 offer |-> NoOffer])
    /\ StageReturns(arg)
    /\ UNCHANGED <<responders, adds, expected, batch0, objs, born, lists, si, idx, arg,
                   result, exc, calls>>

\* respond of a Responder that builds and returns a new list of the entries
NewListRespond ==
    /\ InStage("NewList")
    /\ lists' = Append(lists, lists[arg])
    /\ StageReturns(Len(lists) + 1)
    /\ UNCHANGED <<responders, adds, expected, batch0, objs, born, si, idx, arg,
                   result, exc, calls, events>>

Next ==
    \/ \E responder \in BuiltinKinds : AddFirst(responder)
    \/ \E responder \in BuiltinKinds : AddLast(responder)
    \/ PipelineRespond
    \/ PipelineCall
    \/ PipelineReturn
    \/ \E resp \in ValidationResponses : ValidationStep(resp)
    \/ ValidationReturn
    \/ \E resp \in CarrierResponses : CarrierStep(resp)
    \/ CarrierReturn
    \/ ReportRespond

Spec == Init /\ [][Next]_vars

\* the pipeline with a caller-supplied Responder among its stages
NextCustom ==
    \/ \E responder \in StageKinds : AddFirst(responder)
    \/ \E responder \in StageKinds : AddLast(responder)
    \/ PipelineRespond
    \/ PipelineCall
    \/ PipelineReturn
    \/ \E resp \in ValidationResponses : ValidationStep(resp)
    \/ ValidationReturn
    \/ \E resp \in CarrierResponses : CarrierStep(resp)
    \/ CarrierReturn
    \/ ReportRespond
    \/ NewListRespond

SpecCustom == Init /\ [][NextCustom]_vars

(* ------------------------------ properties ---------------------------- *)
\* the batch, as a caller holding list `l` sees it
Deref(l) == [i \in 1..Len(lists[l]) |-> objs[lists[l][i]]]

WithoutRoute(a) == [a EXCEPT !.carrier_route = NoneVal]

\* list l has the length of the uploaded batch and holds at index i the
\* uploaded entry i itself or an Address a validation stage built for index i
Aligned(l) ==
    /\ Len(lists[l]) = Len(batch0)
    /\ \A i \in 1..Len(lists[l]) :
          /\ born[lists[l][i]] = i
          /\ \/ lists[l][i] = i /\ WithoutRoute(objs[i]) = batch0[i]
             \/ lists[l][i] > Len(batch0)

\* C1: in a pipeline of validation, carrier-route and report stages (any
\* order, any count, at least one) run on a non-empty batch, every batch
\* handed to a stage, every batch a stage returns and the batch the pipeline
\* returns has the length of the input, with index i holding the input's
\* entry i or a validation replacement made for index i.
C1_BatchAligned ==
    (Len(batch0) >= 1 /\ Len(responders) >= 1) =>
        /\ \A j \in 1..Len(calls) : Aligned(calls[j].arg)
        /\ \A j \in 1..Len(rets) : Aligned(rets[j])
        /\ (pc = "returned" => Aligned(result))

\* a completed run of three stages on two addresses, one replaced by
\* validation and one kept
C1_Witness ==
    /\ pc = "returned"
    /\ Len(responders) = 3
    /\ Len(batch0) = 2
    /\ lists[result][1] = 1
    /\ lists[result][2] > 2

Kinds(cs) == [j \in 1..Len(cs) |-> cs[j].kind]

C2_WitnessBuilt ==
    /\ pc = "idle"
    /\ adds = <<[op |-> "add_last", responder |-> "Validation"],
                [op |-> "add_last", responder |-> "Report"],
                [op |-> "add_first", responder |-> "CarrierRoute"]>>
    /\ responders = <<"CarrierRoute", "Validation", "Report">>

\* C3 (as claimed): the first stage is given the input batch, every later
\* stage the batch the stage before it returned, and the pipeline returns
\* what the last stage returned, whatever list a stage returns.
C3_Threading ==
    /\ \A j \in 1..Len(calls) :
          calls[j].arg = IF j = 1 THEN addresses ELSE rets[j - 1]
    /\ pc = "returned" => result = rets[Len(rets)]

\* C9 (as claimed): the run of a pipeline without stages returns the input
\* batch unchanged.
C9_EmptyPipelineReturnsInput ==
    (responders = <<>> /\ pc \notin {"idle", "loop"}) =>
        /\ pc = "returned"
        /\ result = addresses
        /\ Deref(addresses) = batch0

\* the validation stage has just handled the lookup of an entry, without
\* raising, and is still in its loop
Validated == frame.kind = "Validation" /\ pc = "stage"

\* the entry now at the index the stage has just handled
Handled == lists[frame.list][frame.idx]

\* the first candidate of the response yields an Address that differs from
\* the entry on a core field
CandidateDiffers ==
    /\ OfferedAddress(frame.resp).some
    /\ OfferedAddress(frame.resp).value # Core(frame.address)

\* C4: when the lookup returns at least one candidate and the first one
\* yields an Address differing from the entry on a core field, the entry at
\* that index becomes a new Address with the core fields of the first
\* candidate (later candidates ignored), different from the original's, and
\* without the carrier_route the original carried.
C4_ReplacedByFirstCandidate ==
    (Validated /\ CandidateDiffers) =>
        /\ Handled # frame.id
        /\ Core(objs[Handled]) = OfferedAddress(frame.resp).value
        /\ Core(objs[Handled]) # Core(frame.address)
        /\ objs[Handled].carrier_route = NoneVal
        /\ objs[frame.id] = frame.address

\* an entry that carried a route is replaced on a response of two candidates
C4_Witness ==
    /\ Validated
    /\ CandidateDiffers
    /\ Len(frame.resp.candidates) = 2
    /\ frame.address.carrier_route # NoneVal
    /\ Handled # frame.id

\* the lookup returned no candidate, or its first candidate yields an
\* Address equal to the entry on all core fields
NoneOrEqual ==
    /\ frame.resp.ok
    /\ "candidates" \in frame.resp.keys
    /\ \/ Len(frame.resp.candidates) = 0
       \/ /\ OfferedAddress(frame.resp).some
          /\ OfferedAddress(frame.resp).value = Core(frame.address)

\* C5: when the lookup returns zero candidates, or a first candidate equal
\* to the entry on all core fields, the entry at that index is the original
\* object with every field, carrier_route included, as it was.
C5_OriginalKept ==
    (Validated /\ NoneOrEqual) =>
        /\ Handled = frame.id
        /\ objs[Handled] = frame.address

\* an entry carrying a route is confirmed by an equal first candidate
C5_Witness ==
    /\ Validated
    /\ OfferedAddress(frame.resp).some
    /\ OfferedAddress(frame.resp).value = Core(frame.address)
    /\ frame.address.carrier_route # NoneVal
    /\ Handled = frame.id

\* an entry is kept on a response without candidates
C5_WitnessZero ==
    /\ Validated
    /\ frame.resp.ok
    /\ "candidates" \in frame.resp.keys
    /\ Len(frame.resp.candidates) = 0
    /\ Handled = frame.id

\* the carrier-route stage has just handled the lookup of an address,
\* without raising, and is still in its loop
Routed == frame.kind = "CarrierRoute" /\ pc = "stage"

\* C6: after the carrier-route stage handled an address, its carrier_route
\* is the route of the first entry of the response, in order, that has a
\* non-empty one; when no entry has one, carrier_route is what it was (unset
\* when it was unset). Nothing else of the address changes.
C6_FirstRouteWins ==
    Routed =>
        /\ Handled = frame.id
        /\ WithoutRoute(objs[frame.id]) = WithoutRoute(frame.address)
        /\ IF RoutePositions(frame.resp) # {}
           THEN objs[frame.id].carrier_route =
                    frame.resp.addressList[Min(RoutePositions(frame.resp))].carrierRoute
           ELSE objs[frame.id].carrier_route = frame.address.carrier_route

\* two entries with different non-empty routes: the first one is assigned
C6_Witness ==
    /\ Routed
    /\ Cardinality(RoutePositions(frame.resp)) = 2
    /\ frame.address.carrier_route = NoneVal
    /\ objs[frame.id].carrier_route = frame.resp.addressList[1].carrierRoute
    /\ objs[frame.id].carrier_route # frame.resp.addressList[2].carrierRoute

\* no entry with a non-empty route: carrier_route stays unset
C6_WitnessUnset ==
    /\ Routed
    /\ Len(frame.resp.addressList) = 1
    /\ RoutePositions(frame.resp) = {}
    /\ objs[frame.id].carrier_route = NoneVal

Writes == Cardinality({j \in 1..Len(events) : events[j].op = "W"})

\* a lookup of the run got a response the stage cannot use
LookupFailed == \E j \in 1..Len(events) : events[j].fails

ReportLast ==
    /\ responders # <<>>
    /\ responders[Len(responders)] = "Report"

ReportOnlyLast ==
    /\ ReportLast
    /\ \A j \in 1..Len(responders) - 1 : responders[j] # "Report"

\* a run ended by an exception leaving ResponderPipeline.respond
Propagated == pc = "raised" /\ exc # "none" /\ result = Unbound

\* C7 (as claimed): with a report stage last, a run whose lookups all
\* succeed writes exactly once, and a run with a failed lookup never writes
\* and ends with the exception leaving the pipeline.
C7_WriteOnceOrNever ==
    ReportLast =>
        /\ pc = "returned" => Writes = 1
        /\ LookupFailed => Writes = 0 /\ Propagated

\* C7 (amended): the same for a pipeline whose only report stage is its
\* last stage.
C7_WriteOnceOrNeverSingleReport ==
    ReportOnlyLast =>
        /\ pc = "returned" => Writes = 1 /\ ~LookupFailed
        /\ LookupFailed => Writes = 0 /\ Propagated

\* validation, carrier-route, report on two addresses: the carrier-route
\* lookup of the second address fails after three lookups went well
C7_Witness ==
    /\ responders = <<"Validation", "CarrierRoute", "Report">>
    /\ Len(events) = 4
    /\ events[4].op = "C"
    /\ events[4].fails
    /\ Writes = 0
    /\ Propagated

\* the same pipeline with every lookup answered: one write
C7_WitnessWritten ==
    /\ responders = <<"Validation", "CarrierRoute", "Report">>
    /\ Len(batch0) = 2
    /\ pc = "returned"
    /\ Writes = 1

\* C8 (as claimed): when a lookup fails, it is the last lookup of the run
\* and the only failed one, and the batch the caller passed shows no entry
\* replaced and no carrier_route assigned.
C8_NoPartialResults ==
    LookupFailed =>
        /\ pc = "raised"
        /\ \A j \in 1..Len(events) : events[j].fails <=> j = Len(events)
        /\ Deref(addresses) = batch0

Max(S) == CHOOSE x \in S : \A y \in S : x >= y

\* the Address validation left for index i: the latest one created for it
ValidatedEntry(i) == objs[Max({id \in 1..Len(objs) : born[id] = i})]

RouteFound(offer) == IF offer.some THEN offer.value[1] ELSE NoneVal

\* C10: in a run of [validation, carrier-route, report] on n addresses the
\* lookups and the write happen in this order: the validation lookups of
\* indices 1..n (each built from the uploaded entry), then the carrier-route
\* lookups of indices 1..n (each built from the entry validation left at
\* its index), then one write, whose entry i has the core fields validation
\* left and the route the carrier-route lookup of index i found.
C10_StagesInSequence ==
    (responders = <<"Validation", "CarrierRoute", "Report">> /\ pc # "idle") =>
        LET n == Len(batch0) IN
        /\ Len(events) <= 2 * n + 1
        /\ pc = "returned" => Len(events) = 2 * n + 1
        /\ \A j \in 1..Len(events) :
              IF j <= n
              THEN /\ events[j].op = "V"
                   /\ events[j].idx = j
                   /\ events[j].req = ValidationParams(batch0[j])
              ELSE IF j <= 2 * n
              THEN /\ events[j].op = "C"
                   /\ events[j].idx = j - n
                   /\ events[j].req = CarrierData(ValidatedEntry(j - n))
              ELSE /\ events[j].op = "W"
                   /\ Len(events[j].req.data) = n
                   /\ \A i \in 1..n :
                         /\ Core(events[j].req.data[i]) = Core(ValidatedEntry(i))
                         /\ events[j].req.data[i].carrier_route =
                                RouteFound(events[n + i].offer)

\* two addresses: the first replaced by validation and given a route, the
\* second kept and left without one; both written
C10_Witness ==
    /\ responders = <<"Validation", "CarrierRoute", "Report">>
    /\ pc = "returned"
    /\ Len(batch0) = 2
    /\ lists[result][1] > 2
    /\ lists[result][2] = 2
    /\ events[5].req.data[1].carrier_route = "C001"
    /\ events[5].req.data[2].carrier_route = NoneVal
    /\ Core(events[5].req.data[1]) # Core(batch0[1])

====
